---- MODULE Spec2Model ----
(***************************************************************************)
(* A model of hyperwallet/api.py: class Api, the facade over the           *)
(* Hyperwallet REST API, and its pagination helper _getCollection.         *)
(*                                                                         *)
(* Python values are tagged records, so that None, 0, '' and {} stay       *)
(* distinct and Python's truth test can be computed on them:               *)
(*   None, PyInt(n), PyStr(s), PyDict(f), PyList(s), and a resource object *)
(*   [t |-> <class name>, v |-> <the mapping it wraps>].                   *)
(* One call of a public method is followed from "idle" to "done"; a get*   *)
(* call stays in "loop" between the page fetches of _getCollection.        *)
(***************************************************************************)
EXTENDS Integers, Sequences, FiniteSets, TLC

VARIABLES
    client,     \* the Api instance: username, password, programToken, server
    pc,         \* "idle" | "loop" (inside _getCollection's while) | "done"
    op,         \* name of the public method being called ("" when idle)
    args,       \* its arguments, by parameter name
    M,          \* number of items the server holds for the listing being read
    offset,     \* _getCollection: local offset
    maximum,    \* _getCollection: local maximum (None or PyInt)
    results,    \* _getCollection: local results
    calls,      \* the argument dicts _getCollection has passed to func, in order
    requests,   \* the requests the transport (ApiClient) has received, in order
    outcome,    \* "" while running, "ok" on return, else the exception class
    message,    \* the exception's message ("" if none)
    value,      \* the returned value (None unless outcome = "ok")
    runtime     \* the Python the process runs under: "2.7" | "3"

vars == <<client, pc, op, args, M, offset, maximum, results, calls, requests,
          outcome, message, value, runtime>>

----------------------------------------------------------------------------
\* Bounds of the model

\* largest dataset held by the server
MaxData == 250
\* largest starting offset a caller passes
MaxOffset == 150
\* largest ordinary maximum a caller passes
MaxMaximum == 201
\* number of times _addProgramToken is applied to one payload
MaxApplications == 3
\* number of callers that use one client at the same time
NumThreads == 2
\* a maximum far above every dataset
BigMaximum == 1000

----------------------------------------------------------------------------
\* Python values

None == [t |-> "None"]
PyInt(n) == [t |-> "int", v |-> n]
PyStr(s) == [t |-> "str", v |-> s]
PyDict(f) == [t |-> "dict", v |-> f]
PyList(s) == [t |-> "list", v |-> s]

\* {} as a mapping
EmptyMap == [k \in {} |-> None]

\* d[k] = x on a mapping
Put(d, k, x) == [j \in DOMAIN d \cup {k} |-> IF j = k THEN x ELSE d[j]]

\* d.get(k) on a dict value
Get(d, k) == IF k \in DOMAIN d.v THEN d.v[k] ELSE None

\* Python's truth value of x (bool(x))
Truthy(x) ==
    CASE x.t = "None" -> FALSE
      [] x.t = "int"  -> x.v # 0
      [] x.t = "str"  -> x.v # ""
      [] x.t = "dict" -> DOMAIN x.v # {}
      [] x.t = "list" -> Len(x.v) > 0
      [] OTHER        -> TRUE

\* a or b
Or(a, b) == IF Truthy(a) THEN a ELSE b

\* the result of evaluating a call: it returned value, or raised outcome(message)
Returned(x, reqs) ==
    [outcome |-> "ok", message |-> "", value |-> x, requests |-> reqs]
Raised(kind, msg, reqs) ==
    [outcome |-> kind, message |-> msg, value |-> None, requests |-> reqs]


----------------------------------------------------------------------------
\* Collaborators that live outside api.py

\* The names api.py binds with "from hyperwallet import (...)".  Payment is
\* used by listPayments, createPayment and retrievePayment but is not bound.
Imported == {"User", "BankAccount", "PrepaidCard", "PaperCheck", "Webhook"}

\* A resource object of class cls built from mapping x.
Resource(cls, x) == [t |-> cls, v |-> x]

\* The item the server holds at position p (0-based) of a listing.
Item(p) == PyDict([token |-> PyInt(p)])

\* The page a well-behaved server returns for (offset, limit) over M items:
\* the items at positions offset .. offset+limit-1 that exist.
Page(m, off, lim) ==
    LET last == IF off + lim < m THEN off + lim ELSE m
    IN  IF off >= last THEN <<>> ELSE [i \in 1..(last - off) |-> Item(off + i - 1)]

\* The last segments of the listing paths.
Listings ==
    {"users", "bank-accounts", "prepaid-cards", "paper-checks", "payments",
     "webhook-notifications"}

\* What the server answers to a successful request.  A GET on a listing path
\* answers {"data": page}; the server may leave "data" out of an empty page.
\* Any other request answers the mapping env.body.
ServerResponse(method, path, payload, env) ==
    IF method = "doGet" /\ path[Len(path)] \in Listings
    THEN LET q   == IF payload.t = "dict" THEN payload ELSE PyDict(EmptyMap)
             off == IF Get(q, "offset").t = "int" THEN Get(q, "offset").v ELSE 0
             lim == IF Get(q, "limit").t = "int" THEN Get(q, "limit").v ELSE env.M
             pg  == Page(env.M, off, lim)
         IN  IF pg = <<>> /\ env.omitData
             THEN PyDict(EmptyMap)
             ELSE PyDict([data |-> PyList(pg)])
    ELSE env.body

\* self.apiClient.doGet / doPost / doPut: one request reaches the transport,
\* which answers or raises its own error.  The request is logged with how it
\* ended ("ok" or "failed").
Transport(method, path, payload, headers, env) ==
    LET req == [method |-> method, path |-> path, payload |-> payload,
                headers |-> headers,
                status |-> IF env.fail THEN "failed" ELSE "ok"]
    IN  IF env.fail
        THEN Raised("TransportError", "", <<req>>)
        ELSE Returned(ServerResponse(method, path, payload, env), <<req>>)

----------------------------------------------------------------------------
\* Api.__init__  [api.py:36-60]; the last line builds the transport client,
\* ApiClient(self.username, self.password, self.server).

\* A variant of ApiInit that tests programToken against None only.
ApiInit_TokenNotNone(username, password, programToken, server) ==
    IF ~Truthy(username) THEN Raised("HyperwalletException", "username is required", <<>>)
    ELSE IF ~Truthy(password) THEN Raised("HyperwalletException", "password is required", <<>>)
    ELSE IF programToken = [t |-> "None"]
    THEN Raised("HyperwalletException", "programToken is required", <<>>)
    ELSE Returned([username |-> username, password |-> password,
                   programToken |-> programToken, server |-> server,
                   apiClient |-> [username |-> username, password |-> password,
                                  server |-> server]], <<>>)

ApiInit(username, password, programToken, server) ==
    IF ~Truthy(username) THEN Raised("HyperwalletException", "username is required", <<>>)
    ELSE IF ~Truthy(password) THEN Raised("HyperwalletException", "password is required", <<>>)
    ELSE IF ~Truthy(programToken)
    THEN Raised("HyperwalletException", "programToken is required", <<>>)
    ELSE Returned([username |-> username, password |-> password,
                   programToken |-> programToken, server |-> server,
                   apiClient |-> [username |-> username, password |-> password,
                                  server |-> server]], <<>>)

\* A variant of addProgramToken without the key test: the client's
\* programToken is always written.
addProgramToken_Overwrite(self, data) ==
    IF data.t # "dict"
    THEN Raised("HyperwalletException", "data must be a dictionary object", <<>>)
    ELSE Returned(PyDict(Put(data.v, "programToken", self.programToken)), <<>>)

\* A variant of addProgramToken that tests the value, not the key: a caller's
\* empty programToken is replaced by the client's.
addProgramToken_IfFalsy(self, data) ==
    IF data.t # "dict"
    THEN Raised("HyperwalletException", "data must be a dictionary object", <<>>)
    ELSE IF "programToken" \in DOMAIN data.v /\ Truthy(data.v["programToken"])
    THEN Returned(data, <<>>)
    ELSE Returned(PyDict(Put(data.v, "programToken", self.programToken)), <<>>)

\* Api._addProgramToken(data)  [api.py:62-80]
addProgramToken(self, data) ==
    IF data.t # "dict"
    THEN Raised("HyperwalletException", "data must be a dictionary object", <<>>)
    ELSE IF "programToken" \in DOMAIN data.v
    THEN Returned(data, <<>>)
    ELSE Returned(PyDict(Put(data.v, "programToken", self.programToken)), <<>>)

----------------------------------------------------------------------------
\* The shape every list*/create*/retrieve*/update* method has

\* A variant of CheckArg that tests "is None" where the code tests truth, so
\* that an empty token or payload passes.
CheckArg_NoneOnly(c, a) ==
    IF c.kind = "arg"
    THEN IF a[c.name] # [t |-> "None"] THEN "pass" ELSE "missing"
    ELSE IF a["params"].t = "dict"
         THEN IF c.name \in DOMAIN a["params"].v THEN "pass" ELSE "missing"
         ELSE "TypeError"

\* One precondition of a method on arguments a: "pass", "missing" (the method
\* raises HyperwalletException('<name> is required')) or "TypeError".
\*   kind "arg":  if not <name>: raise ...
\*   kind "key":  if '<name>' not in params: raise ...
CheckArg(c, a) ==
    IF c.kind = "arg"
    THEN IF Truthy(a[c.name]) THEN "pass" ELSE "missing"
    ELSE IF a["params"].t = "dict"
         THEN IF c.name \in DOMAIN a["params"].v THEN "pass" ELSE "missing"
         ELSE "TypeError"

\* Index of the first precondition of method m that does not pass (0: none).
FirstFailing(m, a) ==
    LET bad == {i \in 1..Len(m.checks) : CheckArg(m.checks[i], a) # "pass"}
    IN  IF bad = {} THEN 0 ELSE CHOOSE i \in bad : \A j \in bad : i <= j

\* The Python versions the code runs under.
Runtimes == {"2.7", "3"}

\* What os.path.join raises on a component that is not a string: Python 3
\* checks the type (TypeError), Python 2.7 calls b.startswith('/') on it
\* (AttributeError).
JoinError(rt) == IF rt = "2.7" THEN "AttributeError" ELSE "TypeError"

\* os.path.join(...) over the method's literal segments and token arguments:
\* the sequence of segments; it raises (ok = FALSE) when a component is not
\* a string.  Tokens are drawn without '/'.
JoinPath(m, a) ==
    IF \E i \in 1..Len(m.path) : m.path[i].kind = "arg" /\ a[m.path[i].s].t # "str"
    THEN [ok |-> FALSE, segs |-> <<>>]
    ELSE [ok |-> TRUE,
          segs |-> [i \in 1..Len(m.path) |->
                     IF m.path[i].kind = "arg" THEN a[m.path[i].s].v
                     ELSE m.path[i].s]]

\* The method's return statement applied to the transport's response.
Wrap(m, response) ==
    CASE m.wrap = "raw" -> Returned(response, <<>>)
      [] m.wrap = "one" ->
            IF m.resource \in Imported
            THEN Returned(Resource(m.resource, response), <<>>)
            ELSE Raised("NameError", m.resource, <<>>)
      [] m.wrap = "list" ->
            LET data == IF "data" \in DOMAIN response.v
                        THEN response.v["data"].v ELSE <<>>
            IN  IF data # <<>> /\ m.resource \notin Imported
                THEN Raised("NameError", m.resource, <<>>)
                ELSE Returned(PyList([i \in 1..Len(data) |->
                                        Resource(m.resource, data[i])]), <<>>)

\* The body of method m of client self on arguments a (by parameter name),
\* against the environment env.
CallMethod(self, m, a, env) ==
    LET k == FirstFailing(m, a) IN
    IF k # 0
    THEN IF CheckArg(m.checks[k], a) = "missing"
         THEN Raised("HyperwalletException", m.checks[k].name \o " is required", <<>>)
         ELSE Raised("TypeError", "", <<>>)
    ELSE
    LET tok == IF m.addToken THEN addProgramToken(self, a["data"])
               ELSE Returned(None, <<>>)
    IN
    IF tok.outcome # "ok" THEN tok
    ELSE
    LET path    == JoinPath(m, a)
        payload == IF m.payload = "" THEN None
                   ELSE IF m.addToken THEN tok.value ELSE a[m.payload]
        headers == IF m.headers
                   THEN PyDict([h \in {"Json-Cache-Token"} |-> a["cacheToken"]])
                   ELSE None
    IN
    IF ~path.ok THEN Raised(JoinError(env.runtime), "", <<>>)
    ELSE
    LET r == Transport(m.method, path.segs, payload, headers, env) IN
    IF r.outcome # "ok" THEN r
    ELSE LET w == Wrap(m, r.value)
         IN  [w EXCEPT !.requests = r.requests]

\* The arguments of m when called with the positional values pos; parameters
\* not given take their default, None ({} for the params of the two
\* transfer-method-configuration methods).
Bind(m, pos) ==
    [n \in {m.args[i] : i \in 1..Len(m.args)} |->
        LET i == CHOOSE j \in 1..Len(m.args) : m.args[j] = n
        IN  IF i <= Len(pos) THEN pos[i]
            ELSE IF m.checks # <<>> /\ m.checks[1].kind = "key"
            THEN PyDict(EmptyMap) ELSE None]


----------------------------------------------------------------------------
\* The public methods of class Api.  Each list*/create*/retrieve*/update*
\* method is given by its parameters, its preconditions in the order the code
\* tests them, whether it calls _addProgramToken, the transport method, the
\* components of os.path.join, the argument sent as params or body, whether it
\* sends the Json-Cache-Token header, and how it wraps the response.

\* getUsers(params): self._getCollection(self.listUsers, params)  [api.py:124-138]
getUsers ==
    [func |-> "listUsers"]

\* listUsers(params)  [api.py:140-153]
listUsers ==
    [args |-> <<"params">>,
     checks |-> <<>>,
     addToken |-> FALSE,
     method |-> "doGet",
     path |-> <<[kind |-> "lit", s |-> "users"]>>,
     payload |-> "params",
     headers |-> FALSE,
     wrap |-> "list",
     resource |-> "User"]

\* createUser(data)  [api.py:155-173]
createUser ==
    [args |-> <<"data">>,
     checks |-> <<[kind |-> "arg", name |-> "data"]>>,
     addToken |-> TRUE,
     method |-> "doPost",
     path |-> <<[kind |-> "lit", s |-> "users"]>>,
     payload |-> "data",
     headers |-> FALSE,
     wrap |-> "one",
     resource |-> "User"]

\* retrieveUser(userToken)  [api.py:175-193]
retrieveUser ==
    [args |-> <<"userToken">>,
     checks |-> <<[kind |-> "arg", name |-> "userToken"]>>,
     addToken |-> FALSE,
     method |-> "doGet",
     path |-> <<[kind |-> "lit", s |-> "users"], [kind |-> "arg", s |-> "userToken"]>>,
     payload |-> "",
     headers |-> FALSE,
     wrap |-> "one",
     resource |-> "User"]

\* updateUser(userToken, data)  [api.py:195-220]
updateUser ==
    [args |-> <<"userToken", "data">>,
     checks |-> <<[kind |-> "arg", name |-> "userToken"], [kind |-> "arg", name |-> "data"]>>,
     addToken |-> FALSE,
     method |-> "doPut",
     path |-> <<[kind |-> "lit", s |-> "users"], [kind |-> "arg", s |-> "userToken"]>>,
     payload |-> "data",
     headers |-> FALSE,
     wrap |-> "one",
     resource |-> "User"]

\* listUserBalances(userToken, params)  [api.py:222-239]
listUserBalances ==
    [args |-> <<"userToken", "params">>,
     checks |-> <<[kind |-> "arg", name |-> "userToken"]>>,
     addToken |-> FALSE,
     method |-> "doGet",
     path |-> <<[kind |-> "lit", s |-> "users"], [kind |-> "arg", s |-> "userToken"], [kind |-> "lit", s |-> "balances"]>>,
     payload |-> "params",
     headers |-> FALSE,
     wrap |-> "raw",
     resource |-> ""]

\* listUserReceipts(userToken, params)  [api.py:241-258]
listUserReceipts ==
    [args |-> <<"userToken", "params">>,
     checks |-> <<[kind |-> "arg", name |-> "userToken"]>>,
     addToken |-> FALSE,
     method |-> "doGet",
     path |-> <<[kind |-> "lit", s |-> "users"], [kind |-> "arg", s |-> "userToken"], [kind |-> "lit", s |-> "receipts"]>>,
     payload |-> "params",
     headers |-> FALSE,
     wrap |-> "raw",
     resource |-> ""]

\* getBankAccounts(params): self._getCollection(self.listBankAccounts, params)  [api.py:260-275]
getBankAccounts ==
    [func |-> "listBankAccounts"]

\* listBankAccounts(userToken, params)  [api.py:277-299]
listBankAccounts ==
    [args |-> <<"userToken", "params">>,
     checks |-> <<[kind |-> "arg", name |-> "userToken"]>>,
     addToken |-> FALSE,
     method |-> "doGet",
     path |-> <<[kind |-> "lit", s |-> "users"], [kind |-> "arg", s |-> "userToken"], [kind |-> "lit", s |-> "bank-accounts"]>>,
     payload |-> "params",
     headers |-> FALSE,
     wrap |-> "list",
     resource |-> "BankAccount"]

\* createBankAccount(userToken, data)  [api.py:301-326]
createBankAccount ==
    [args |-> <<"userToken", "data">>,
     checks |-> <<[kind |-> "arg", name |-> "userToken"], [kind |-> "arg", name |-> "data"]>>,
     addToken |-> FALSE,
     method |-> "doPost",
     path |-> <<[kind |-> "lit", s |-> "users"], [kind |-> "arg", s |-> "userToken"], [kind |-> "lit", s |-> "bank-accounts"]>>,
     payload |-> "data",
     headers |-> FALSE,
     wrap |-> "one",
     resource |-> "BankAccount"]

\* retrieveBankAccount(userToken, bankAccountToken)  [api.py:328-352]
retrieveBankAccount ==
    [args |-> <<"userToken", "bankAccountToken">>,
     checks |-> <<[kind |-> "arg", name |-> "userToken"], [kind |-> "arg", name |-> "bankAccountToken"]>>,
     addToken |-> FALSE,
     method |-> "doGet",
     path |-> <<[kind |-> "lit", s |-> "users"], [kind |-> "arg", s |-> "userToken"], [kind |-> "lit", s |-> "bank-accounts"], [kind |-> "arg", s |-> "bankAccountToken"]>>,
     payload |-> "",
     headers |-> FALSE,
     wrap |-> "one",
     resource |-> "BankAccount"]

\* updateBankAccount(userToken, bankAccountToken, data)  [api.py:354-390]
updateBankAccount ==
    [args |-> <<"userToken", "bankAccountToken", "data">>,
     checks |-> <<[kind |-> "arg", name |-> "userToken"], [kind |-> "arg", name |-> "bankAccountToken"], [kind |-> "arg", name |-> "data"]>>,
     addToken |-> FALSE,
     method |-> "doPut",
     path |-> <<[kind |-> "lit", s |-> "users"], [kind |-> "arg", s |-> "userToken"], [kind |-> "lit", s |-> "bank-accounts"], [kind |-> "arg", s |-> "bankAccountToken"]>>,
     payload |-> "data",
     headers |-> FALSE,
     wrap |-> "one",
     resource |-> "BankAccount"]

\* createBankAccountStatusTransition(userToken, bankAccountToken, data)  [api.py:392-426]
createBankAccountStatusTransition ==
    [args |-> <<"userToken", "bankAccountToken", "data">>,
     checks |-> <<[kind |-> "arg", name |-> "userToken"], [kind |-> "arg", name |-> "bankAccountToken"], [kind |-> "arg", name |-> "data"]>>,
     addToken |-> FALSE,
     method |-> "doPost",
     path |-> <<[kind |-> "lit", s |-> "users"], [kind |-> "arg", s |-> "userToken"], [kind |-> "lit", s |-> "bank-accounts"], [kind |-> "arg", s |-> "bankAccountToken"], [kind |-> "lit", s |-> "status-transitions"]>>,
     payload |-> "data",
     headers |-> FALSE,
     wrap |-> "raw",
     resource |-> ""]

\* retrieveBankAccountStatusTransition(userToken, bankAccountToken, statusTransitionToken)  [api.py:428-462]
retrieveBankAccountStatusTransition ==
    [args |-> <<"userToken", "bankAccountToken", "statusTransitionToken">>,
     checks |-> <<[kind |-> "arg", name |-> "userToken"], [kind |-> "arg", name |-> "bankAccountToken"], [kind |-> "arg", name |-> "statusTransitionToken"]>>,
     addToken |-> FALSE,
     method |-> "doGet",
     path |-> <<[kind |-> "lit", s |-> "users"], [kind |-> "arg", s |-> "userToken"], [kind |-> "lit", s |-> "bank-accounts"], [kind |-> "arg", s |-> "bankAccountToken"], [kind |-> "lit", s |-> "status-transitions"], [kind |-> "arg", s |-> "statusTransitionToken"]>>,
     payload |-> "",
     headers |-> FALSE,
     wrap |-> "raw",
     resource |-> ""]

\* getPrepaidCards(params): self._getCollection(self.listPrepaidCards, params)  [api.py:464-479]
getPrepaidCards ==
    [func |-> "listPrepaidCards"]

\* listPrepaidCards(userToken, params)  [api.py:481-503]
listPrepaidCards ==
    [args |-> <<"userToken", "params">>,
     checks |-> <<[kind |-> "arg", name |-> "userToken"]>>,
     addToken |-> FALSE,
     method |-> "doGet",
     path |-> <<[kind |-> "lit", s |-> "users"], [kind |-> "arg", s |-> "userToken"], [kind |-> "lit", s |-> "prepaid-cards"]>>,
     payload |-> "params",
     headers |-> FALSE,
     wrap |-> "list",
     resource |-> "PrepaidCard"]

\* createPrepaidCard(userToken, data)  [api.py:505-530]
createPrepaidCard ==
    [args |-> <<"userToken", "data">>,
     checks |-> <<[kind |-> "arg", name |-> "userToken"], [kind |-> "arg", name |-> "data"]>>,
     addToken |-> FALSE,
     method |-> "doPost",
     path |-> <<[kind |-> "lit", s |-> "users"], [kind |-> "arg", s |-> "userToken"], [kind |-> "lit", s |-> "prepaid-cards"]>>,
     payload |-> "data",
     headers |-> FALSE,
     wrap |-> "one",
     resource |-> "PrepaidCard"]

\* retrievePrepaidCard(userToken, prepaidCardToken)  [api.py:532-556]
retrievePrepaidCard ==
    [args |-> <<"userToken", "prepaidCardToken">>,
     checks |-> <<[kind |-> "arg", name |-> "userToken"], [kind |-> "arg", name |-> "prepaidCardToken"]>>,
     addToken |-> FALSE,
     method |-> "doGet",
     path |-> <<[kind |-> "lit", s |-> "users"], [kind |-> "arg", s |-> "userToken"], [kind |-> "lit", s |-> "prepaid-cards"], [kind |-> "arg", s |-> "prepaidCardToken"]>>,
     payload |-> "",
     headers |-> FALSE,
     wrap |-> "one",
     resource |-> "PrepaidCard"]

\* listPrepaidCardStatusTransitions(userToken, prepaidCardToken)  [api.py:558-584]
listPrepaidCardStatusTransitions ==
    [args |-> <<"userToken", "prepaidCardToken">>,
     checks |-> <<[kind |-> "arg", name |-> "userToken"], [kind |-> "arg", name |-> "prepaidCardToken"]>>,
     addToken |-> FALSE,
     method |-> "doGet",
     path |-> <<[kind |-> "lit", s |-> "users"], [kind |-> "arg", s |-> "userToken"], [kind |-> "lit", s |-> "prepaid-cards"], [kind |-> "arg", s |-> "prepaidCardToken"], [kind |-> "lit", s |-> "status-transitions"]>>,
     payload |-> "",
     headers |-> FALSE,
     wrap |-> "raw",
     resource |-> ""]

\* createPrepaidCardStatusTransition(userToken, prepaidCardToken, data)  [api.py:586-620]
createPrepaidCardStatusTransition ==
    [args |-> <<"userToken", "prepaidCardToken", "data">>,
     checks |-> <<[kind |-> "arg", name |-> "userToken"], [kind |-> "arg", name |-> "prepaidCardToken"], [kind |-> "arg", name |-> "data"]>>,
     addToken |-> FALSE,
     method |-> "doPost",
     path |-> <<[kind |-> "lit", s |-> "users"], [kind |-> "arg", s |-> "userToken"], [kind |-> "lit", s |-> "prepaid-cards"], [kind |-> "arg", s |-> "prepaidCardToken"], [kind |-> "lit", s |-> "status-transitions"]>>,
     payload |-> "data",
     headers |-> FALSE,
     wrap |-> "raw",
     resource |-> ""]

\* retrievePrepaidCardStatusTransition(userToken, prepaidCardToken, statusTransitionToken)  [api.py:622-656]
retrievePrepaidCardStatusTransition ==
    [args |-> <<"userToken", "prepaidCardToken", "statusTransitionToken">>,
     checks |-> <<[kind |-> "arg", name |-> "userToken"], [kind |-> "arg", name |-> "prepaidCardToken"], [kind |-> "arg", name |-> "statusTransitionToken"]>>,
     addToken |-> FALSE,
     method |-> "doGet",
     path |-> <<[kind |-> "lit", s |-> "users"], [kind |-> "arg", s |-> "userToken"], [kind |-> "lit", s |-> "prepaid-cards"], [kind |-> "arg", s |-> "prepaidCardToken"], [kind |-> "lit", s |-> "status-transitions"], [kind |-> "arg", s |-> "statusTransitionToken"]>>,
     payload |-> "",
     headers |-> FALSE,
     wrap |-> "raw",
     resource |-> ""]

\* listPrepaidCardBalances(userToken, prepaidCardToken, params)  [api.py:658-687]
listPrepaidCardBalances ==
    [args |-> <<"userToken", "prepaidCardToken", "params">>,
     checks |-> <<[kind |-> "arg", name |-> "userToken"], [kind |-> "arg", name |-> "prepaidCardToken"]>>,
     addToken |-> FALSE,
     method |-> "doGet",
     path |-> <<[kind |-> "lit", s |-> "users"], [kind |-> "arg", s |-> "userToken"], [kind |-> "lit", s |-> "prepaid-cards"], [kind |-> "arg", s |-> "prepaidCardToken"], [kind |-> "lit", s |-> "balances"]>>,
     payload |-> "params",
     headers |-> FALSE,
     wrap |-> "raw",
     resource |-> ""]

\* listPrepaidCardReceipts(userToken, prepaidCardToken, params)  [api.py:689-718]
listPrepaidCardReceipts ==
    [args |-> <<"userToken", "prepaidCardToken", "params">>,
     checks |-> <<[kind |-> "arg", name |-> "userToken"], [kind |-> "arg", name |-> "prepaidCardToken"]>>,
     addToken |-> FALSE,
     method |-> "doGet",
     path |-> <<[kind |-> "lit", s |-> "users"], [kind |-> "arg", s |-> "userToken"], [kind |-> "lit", s |-> "prepaid-cards"], [kind |-> "arg", s |-> "prepaidCardToken"], [kind |-> "lit", s |-> "receipts"]>>,
     payload |-> "params",
     headers |-> FALSE,
     wrap |-> "raw",
     resource |-> ""]

\* getPaperChecks(params): self._getCollection(self.listPaperChecks, params)  [api.py:720-735]
getPaperChecks ==
    [func |-> "listPaperChecks"]

\* listPaperChecks(userToken, params)  [api.py:737-759]
listPaperChecks ==
    [args |-> <<"userToken", "params">>,
     checks |-> <<[kind |-> "arg", name |-> "userToken"]>>,
     addToken |-> FALSE,
     method |-> "doGet",
     path |-> <<[kind |-> "lit", s |-> "users"], [kind |-> "arg", s |-> "userToken"], [kind |-> "lit", s |-> "paper-checks"]>>,
     payload |-> "params",
     headers |-> FALSE,
     wrap |-> "list",
     resource |-> "PaperCheck"]

\* createPaperCheck(userToken, data)  [api.py:761-786]
createPaperCheck ==
    [args |-> <<"userToken", "data">>,
     checks |-> <<[kind |-> "arg", name |-> "userToken"], [kind |-> "arg", name |-> "data"]>>,
     addToken |-> FALSE,
     method |-> "doPost",
     path |-> <<[kind |-> "lit", s |-> "users"], [kind |-> "arg", s |-> "userToken"], [kind |-> "lit", s |-> "paper-checks"]>>,
     payload |-> "data",
     headers |-> FALSE,
     wrap |-> "one",
     resource |-> "PaperCheck"]

\* retrievePaperCheck(userToken, paperCheckToken)  [api.py:788-812]
retrievePaperCheck ==
    [args |-> <<"userToken", "paperCheckToken">>,
     checks |-> <<[kind |-> "arg", name |-> "userToken"], [kind |-> "arg", name |-> "paperCheckToken"]>>,
     addToken |-> FALSE,
     method |-> "doGet",
     path |-> <<[kind |-> "lit", s |-> "users"], [kind |-> "arg", s |-> "userToken"], [kind |-> "lit", s |-> "paper-checks"], [kind |-> "arg", s |-> "paperCheckToken"]>>,
     payload |-> "",
     headers |-> FALSE,
     wrap |-> "one",
     resource |-> "PaperCheck"]

\* updatePaperCheck(userToken, paperCheckToken, data)  [api.py:814-845]
updatePaperCheck ==
    [args |-> <<"userToken", "paperCheckToken", "data">>,
     checks |-> <<[kind |-> "arg", name |-> "userToken"], [kind |-> "arg", name |-> "paperCheckToken"], [kind |-> "arg", name |-> "data"]>>,
     addToken |-> FALSE,
     method |-> "doPut",
     path |-> <<[kind |-> "lit", s |-> "users"], [kind |-> "arg", s |-> "userToken"], [kind |-> "lit", s |-> "paper-checks"], [kind |-> "arg", s |-> "paperCheckToken"]>>,
     payload |-> "data",
     headers |-> FALSE,
     wrap |-> "one",
     resource |-> "PaperCheck"]

\* createPaperCheckStatusTransition(userToken, paperCheckToken, data)  [api.py:847-881]
createPaperCheckStatusTransition ==
    [args |-> <<"userToken", "paperCheckToken", "data">>,
     checks |-> <<[kind |-> "arg", name |-> "userToken"], [kind |-> "arg", name |-> "paperCheckToken"], [kind |-> "arg", name |-> "data"]>>,
     addToken |-> FALSE,
     method |-> "doPost",
     path |-> <<[kind |-> "lit", s |-> "users"], [kind |-> "arg", s |-> "userToken"], [kind |-> "lit", s |-> "paper-checks"], [kind |-> "arg", s |-> "paperCheckToken"], [kind |-> "lit", s |-> "status-transitions"]>>,
     payload |-> "data",
     headers |-> FALSE,
     wrap |-> "raw",
     resource |-> ""]

\* retrievePaperCheckStatusTransition(userToken, paperCheckToken, statusTransitionToken)  [api.py:883-916]
retrievePaperCheckStatusTransition ==
    [args |-> <<"userToken", "paperCheckToken", "statusTransitionToken">>,
     checks |-> <<[kind |-> "arg", name |-> "userToken"], [kind |-> "arg", name |-> "paperCheckToken"], [kind |-> "arg", name |-> "statusTransitionToken"]>>,
     addToken |-> FALSE,
     method |-> "doGet",
     path |-> <<[kind |-> "lit", s |-> "users"], [kind |-> "arg", s |-> "userToken"], [kind |-> "lit", s |-> "paper-checks"], [kind |-> "arg", s |-> "paperCheckToken"], [kind |-> "lit", s |-> "status-transitions"], [kind |-> "arg", s |-> "statusTransitionToken"]>>,
     payload |-> "",
     headers |-> FALSE,
     wrap |-> "raw",
     resource |-> ""]

\* getPayments(params): self._getCollection(self.listPayments, params)  [api.py:918-933]
getPayments ==
    [func |-> "listPayments"]

\* listPayments(params)  [api.py:935-948]
listPayments ==
    [args |-> <<"params">>,
     checks |-> <<>>,
     addToken |-> FALSE,
     method |-> "doGet",
     path |-> <<[kind |-> "lit", s |-> "payments"]>>,
     payload |-> "params",
     headers |-> FALSE,
     wrap |-> "list",
     resource |-> "Payment"]

\* createPayment(data)  [api.py:950-968]
createPayment ==
    [args |-> <<"data">>,
     checks |-> <<[kind |-> "arg", name |-> "data"]>>,
     addToken |-> TRUE,
     method |-> "doPost",
     path |-> <<[kind |-> "lit", s |-> "payments"]>>,
     payload |-> "data",
     headers |-> FALSE,
     wrap |-> "one",
     resource |-> "Payment"]

\* retrievePayment(paymentToken)  [api.py:970-986]
retrievePayment ==
    [args |-> <<"paymentToken">>,
     checks |-> <<[kind |-> "arg", name |-> "paymentToken"]>>,
     addToken |-> FALSE,
     method |-> "doGet",
     path |-> <<[kind |-> "lit", s |-> "payments"], [kind |-> "arg", s |-> "paymentToken"]>>,
     payload |-> "",
     headers |-> FALSE,
     wrap |-> "one",
     resource |-> "Payment"]

\* retrieveAccount(programToken, accountToken)  [api.py:988-1007]
retrieveAccount ==
    [args |-> <<"programToken", "accountToken">>,
     checks |-> <<[kind |-> "arg", name |-> "programToken"], [kind |-> "arg", name |-> "accountToken"]>>,
     addToken |-> FALSE,
     method |-> "doGet",
     path |-> <<[kind |-> "lit", s |-> "programs"], [kind |-> "arg", s |-> "programToken"], [kind |-> "lit", s |-> "accounts"], [kind |-> "arg", s |-> "accountToken"]>>,
     payload |-> "",
     headers |-> FALSE,
     wrap |-> "raw",
     resource |-> ""]

\* listAccountBalances(programToken, accountToken, params)  [api.py:1009-1037]
listAccountBalances ==
    [args |-> <<"programToken", "accountToken", "params">>,
     checks |-> <<[kind |-> "arg", name |-> "programToken"], [kind |-> "arg", name |-> "accountToken"]>>,
     addToken |-> FALSE,
     method |-> "doGet",
     path |-> <<[kind |-> "lit", s |-> "programs"], [kind |-> "arg", s |-> "programToken"], [kind |-> "lit", s |-> "accounts"], [kind |-> "arg", s |-> "accountToken"], [kind |-> "lit", s |-> "balances"]>>,
     payload |-> "params",
     headers |-> FALSE,
     wrap |-> "raw",
     resource |-> ""]

\* listAccountReceipts(programToken, accountToken, params)  [api.py:1039-1067]
listAccountReceipts ==
    [args |-> <<"programToken", "accountToken", "params">>,
     checks |-> <<[kind |-> "arg", name |-> "programToken"], [kind |-> "arg", name |-> "accountToken"]>>,
     addToken |-> FALSE,
     method |-> "doGet",
     path |-> <<[kind |-> "lit", s |-> "programs"], [kind |-> "arg", s |-> "programToken"], [kind |-> "lit", s |-> "accounts"], [kind |-> "arg", s |-> "accountToken"], [kind |-> "lit", s |-> "receipts"]>>,
     payload |-> "params",
     headers |-> FALSE,
     wrap |-> "raw",
     resource |-> ""]

\* retrieveProgram(programToken)  [api.py:1069-1081]
retrieveProgram ==
    [args |-> <<"programToken">>,
     checks |-> <<[kind |-> "arg", name |-> "programToken"]>>,
     addToken |-> FALSE,
     method |-> "doGet",
     path |-> <<[kind |-> "lit", s |-> "programs"], [kind |-> "arg", s |-> "programToken"]>>,
     payload |-> "",
     headers |-> FALSE,
     wrap |-> "raw",
     resource |-> ""]

\* listTransferMethodConfigurations(params)  [api.py:1083-1098]
listTransferMethodConfigurations ==
    [args |-> <<"params">>,
     checks |-> <<[kind |-> "key", name |-> "userToken"]>>,
     addToken |-> FALSE,
     method |-> "doGet",
     path |-> <<[kind |-> "lit", s |-> "transfer-method-configurations"]>>,
     payload |-> "params",
     headers |-> FALSE,
     wrap |-> "raw",
     resource |-> ""]

\* retrieveTransferMethodConfiguration(params)  [api.py:1100-1139]
retrieveTransferMethodConfiguration ==
    [args |-> <<"params">>,
     checks |-> <<[kind |-> "key", name |-> "userToken"], [kind |-> "key", name |-> "country"], [kind |-> "key", name |-> "currency"], [kind |-> "key", name |-> "type"], [kind |-> "key", name |-> "profileType"]>>,
     addToken |-> FALSE,
     method |-> "doGet",
     path |-> <<[kind |-> "lit", s |-> "transfer-method-configurations"]>>,
     payload |-> "params",
     headers |-> FALSE,
     wrap |-> "raw",
     resource |-> ""]

\* createTransferMethod(userToken, cacheToken, data)  [api.py:1141-1167]
createTransferMethod ==
    [args |-> <<"userToken", "cacheToken", "data">>,
     checks |-> <<[kind |-> "arg", name |-> "userToken"], [kind |-> "arg", name |-> "cacheToken"]>>,
     addToken |-> FALSE,
     method |-> "doPost",
     path |-> <<[kind |-> "lit", s |-> "users"], [kind |-> "arg", s |-> "userToken"], [kind |-> "lit", s |-> "transfer-methods"]>>,
     payload |-> "data",
     headers |-> TRUE,
     wrap |-> "raw",
     resource |-> ""]

\* getWebhooks(params): self._getCollection(self.listWebhooks, params)  [api.py:1169-1184]
getWebhooks ==
    [func |-> "listWebhooks"]

\* listWebhooks(params)  [api.py:1186-1199]
listWebhooks ==
    [args |-> <<"params">>,
     checks |-> <<>>,
     addToken |-> FALSE,
     method |-> "doGet",
     path |-> <<[kind |-> "lit", s |-> "webhook-notifications"]>>,
     payload |-> "params",
     headers |-> FALSE,
     wrap |-> "list",
     resource |-> "Webhook"]

\* retrieveWebhook(webhookToken)  [api.py:1201-1219]
retrieveWebhook ==
    [args |-> <<"webhookToken">>,
     checks |-> <<[kind |-> "arg", name |-> "webhookToken"]>>,
     addToken |-> FALSE,
     method |-> "doGet",
     path |-> <<[kind |-> "lit", s |-> "webhook-notifications"], [kind |-> "arg", s |-> "webhookToken"]>>,
     payload |-> "",
     headers |-> FALSE,
     wrap |-> "one",
     resource |-> "Webhook"]

\* The list*/create*/retrieve*/update* methods of class Api, by name.
Facade ==
    [listUsers |-> listUsers, createUser |-> createUser,
     retrieveUser |-> retrieveUser, updateUser |-> updateUser,
     listUserBalances |-> listUserBalances, listUserReceipts |-> listUserReceipts,
     listBankAccounts |-> listBankAccounts, createBankAccount |-> createBankAccount,
     retrieveBankAccount |-> retrieveBankAccount, updateBankAccount |-> updateBankAccount,
     createBankAccountStatusTransition |-> createBankAccountStatusTransition, retrieveBankAccountStatusTransition |-> retrieveBankAccountStatusTransition,
     listPrepaidCards |-> listPrepaidCards, createPrepaidCard |-> createPrepaidCard,
     retrievePrepaidCard |-> retrievePrepaidCard, listPrepaidCardStatusTransitions |-> listPrepaidCardStatusTransitions,
     createPrepaidCardStatusTransition |-> createPrepaidCardStatusTransition, retrievePrepaidCardStatusTransition |-> retrievePrepaidCardStatusTransition,
     listPrepaidCardBalances |-> listPrepaidCardBalances, listPrepaidCardReceipts |-> listPrepaidCardReceipts,
     listPaperChecks |-> listPaperChecks, createPaperCheck |-> createPaperCheck,
     retrievePaperCheck |-> retrievePaperCheck, updatePaperCheck |-> updatePaperCheck,
     createPaperCheckStatusTransition |-> createPaperCheckStatusTransition, retrievePaperCheckStatusTransition |-> retrievePaperCheckStatusTransition,
     listPayments |-> listPayments, createPayment |-> createPayment,
     retrievePayment |-> retrievePayment, retrieveAccount |-> retrieveAccount,
     listAccountBalances |-> listAccountBalances, listAccountReceipts |-> listAccountReceipts,
     retrieveProgram |-> retrieveProgram, listTransferMethodConfigurations |-> listTransferMethodConfigurations,
     retrieveTransferMethodConfiguration |-> retrieveTransferMethodConfiguration, createTransferMethod |-> createTransferMethod,
     listWebhooks |-> listWebhooks, retrieveWebhook |-> retrieveWebhook]

\* The get* methods of class Api, by name.
Getters ==
    [getUsers |-> getUsers, getBankAccounts |-> getBankAccounts,
     getPrepaidCards |-> getPrepaidCards, getPaperChecks |-> getPaperChecks,
     getPayments |-> getPayments, getWebhooks |-> getWebhooks]

----------------------------------------------------------------------------
\* Api._getCollection(func, params)  [api.py:82-122]

\* chunksize = 100
chunksize == 100

\* offset = params.get('offset') or 0
StartOffset(params) == Or(Get(params, "offset"), PyInt(0))

\* maximum = None or params.get('maximum')
StartMaximum(params) == Or(None, Get(params, "maximum"))

\* A variant of ReturnsEmpty that follows the code's comment ("if the maximum
\* is a negative number") and lets 0 through.
ReturnsEmpty_NegativeOnly(max) == max # None /\ max.v < 0

\* if maximum is not None and maximum < 1: return []
ReturnsEmpty(max) == max # None /\ max.v < 1

\* A variant of ChunkRequest that also carries the caller's other keys.
ChunkRequest_WithFilters(off) ==
    LET p    == args["params"].v
        keys == (DOMAIN p \ {"offset", "maximum"}) \cup {"offset", "limit"}
    IN  PyDict([k \in keys |->
                  CASE k = "offset" -> PyInt(off)
                    [] k = "limit"  -> PyInt(chunksize)
                    [] OTHER        -> p[k]])

\* the argument of func(...): {'offset': offset, 'limit': chunksize}
ChunkRequest(off) == PyDict([offset |-> PyInt(off), limit |-> PyInt(chunksize)])

\* A variant of NextOffset that advances by one page index, not by one page
\* of items.
NextOffset_ByOne(off) == off + 1

\* offset += chunksize
NextOffset(off) == off + chunksize

\* Variants of IsLastPage: only an empty page ends the loop; a full page ends
\* it too.
IsLastPage_EmptyOnly(response) == Len(response) = 0
IsLastPage_AlsoFull(response) == Len(response) <= chunksize

\* if len(response) < chunksize: break
IsLastPage(response) == Len(response) < chunksize

\* A variant of MaximumReached without the second break: the loop runs to the
\* first short page whatever the maximum.
MaximumReached_Never(max, res) == FALSE

\* A variant of MaximumReached that breaks only above the maximum.
MaximumReached_Strict(max, res) == Truthy(max) /\ Len(res) > max.v

\* if maximum and len(results) >= maximum: break
MaximumReached(max, res) == Truthy(max) /\ Len(res) >= max.v

\* A variant of Slice that returns the whole accumulator.
Slice_NoTruncate(res, max) == res

\* A variant of Slice that keeps the last maximum items: results[-maximum:].
Slice_FromEnd(res, max) ==
    IF max = None THEN res
    ELSE LET n == IF max.v < Len(res) THEN max.v ELSE Len(res)
         IN  SubSeq(res, Len(res) - n + 1, Len(res))

\* results[0:maximum]
Slice(res, max) ==
    IF max = None THEN res
    ELSE LET stop == IF max.v >= 0
                     THEN (IF max.v < Len(res) THEN max.v ELSE Len(res))
                     ELSE (IF Len(res) + max.v > 0 THEN Len(res) + max.v ELSE 0)
         IN  SubSeq(res, 1, stop)

\* A variant of Unwind that catches the error and returns the pages read so far.
Unwind_Partial(r, res) ==
    [pc |-> "done", outcome |-> "ok", message |-> "", value |-> PyList(res)]

\* func(...) raised r inside the loop: nothing catches it, so it leaves
\* _getCollection and the get* method, and the local results are dropped.
Unwind(r, res) ==
    [pc |-> "done", outcome |-> r.outcome, message |-> r.message, value |-> None]

----------------------------------------------------------------------------
\* Inputs

DataSizes == {n \in 0..MaxData : n % chunksize \in {0, 1, 50, 99}} \cup {MaxData}

OffsetChoices ==
    {None} \cup {PyInt(o) : o \in {n \in 0..MaxOffset : n % chunksize \in {0, 1, 50}}
                                  \cup {MaxOffset}}

MaximumChoices ==
    {None} \cup {PyInt(x) : x \in {n \in 0..MaxMaximum : n % chunksize \in {0, 1, 20, 99}}
                                  \cup {-1, MaxMaximum, BigMaximum}}

\* marks a key the caller leaves out of a dict
Absent == [t |-> "absent"]

\* the dict holding the given keys, without those marked Absent
MkDict(f) == PyDict([k \in {j \in DOMAIN f : f[j] # Absent} |-> f[k]])

\* The params a caller gives a get* method: None, or a dict with any of the
\* keys offset, maximum and a filter (createdAfter).
GetParams ==
    {None} \cup
    {MkDict([offset |-> o, maximum |-> x, createdAfter |-> f]) :
        o \in OffsetChoices \cup {Absent},
        x \in MaximumChoices \cup {Absent},
        f \in {Absent, PyStr("2016-01-01")}}

\* The values a caller gives parameter n of a facade method.
ArgChoices(n) ==
    CASE n = "data" ->
            {None, PyDict(EmptyMap), PyStr("raw"),
             PyDict([profileType |-> PyStr("INDIVIDUAL")]),
             PyDict([profileType |-> PyStr("INDIVIDUAL"), programToken |-> PyStr("prg-2")]),
             PyDict([programToken |-> PyStr("")])}
      [] n = "params" ->
            {None, PyDict(EmptyMap),
             PyDict([createdAfter |-> PyStr("2016-01-01")]),
             PyDict([offset |-> PyInt(100), limit |-> PyInt(100)]),
             PyDict([userToken |-> PyStr("")]),
             PyDict([userToken |-> PyStr("tok-userToken")]),
             PyDict([userToken |-> PyStr("tok-userToken"), country |-> PyStr("US"),
                     currency |-> PyStr("USD"), type |-> PyStr("BANK_ACCOUNT")]),
             PyDict([userToken |-> PyStr("tok-userToken"), country |-> PyStr("US"),
                     currency |-> PyStr("USD"), type |-> PyStr("BANK_ACCOUNT"),
                     profileType |-> PyStr("")]),
             PyDict([userToken |-> PyStr("tok-userToken"), country |-> PyStr("US"),
                     currency |-> PyStr("USD"), type |-> PyStr("BANK_ACCOUNT"),
                     profileType |-> PyStr("INDIVIDUAL")])}
      [] OTHER -> {None, PyStr(""), PyStr("tok-" \o n)}

\* The argument assignments a caller may give method m.
Arguments(m) ==
    LET names == {m.args[i] : i \in 1..Len(m.args)}
    IN  {a \in [names -> UNION {ArgChoices(n) : n \in names}] :
            \A n \in names : a[n] \in ArgChoices(n)}

\* The mappings the server answers with on a path that is no listing.
Bodies == {PyDict(EmptyMap), PyDict([token |-> PyStr("res-1")])}

\* The configurations Api(...) is called with.
Credentials == {None, PyStr(""), PyStr("secret")}
ProgramTokens == {None, PyStr(""), PyStr("prg-1")}
Servers == {PyStr("https://sandbox")}

----------------------------------------------------------------------------
\* State machine

Idle ==
    /\ pc = "idle" /\ op = "" /\ args = EmptyMap /\ M = 0
    /\ offset = 0 /\ maximum = None /\ results = <<>>
    /\ calls = <<>> /\ requests = <<>>
    /\ outcome = "" /\ message = "" /\ value = None

\* A client exists once Api(username, password, programToken, server) returned.
Init ==
    /\ \E u \in Credentials, p \in Credentials, t \in ProgramTokens, s \in Servers :
          /\ ApiInit(u, p, t, s).outcome = "ok"
          /\ client = ApiInit(u, p, t, s).value
    /\ runtime \in Runtimes
    /\ Idle

\* A caller calls a list*/create*/retrieve*/update* method: the whole method
\* runs, with at most one transport call.
CallFacade ==
    /\ pc = "idle"
    /\ \E name \in DOMAIN Facade :
       \E a \in Arguments(Facade[name]) :
       \E m \in (IF Facade[name].wrap = "list" THEN DataSizes ELSE {0}) :
       \E fail \in BOOLEAN, omit \in BOOLEAN, body \in Bodies :
          LET env == [fail |-> fail, omitData |-> omit, body |-> body, M |-> m,
                      runtime |-> runtime]
              r   == CallMethod(client, Facade[name], a, env)
          IN  /\ op' = name
              /\ args' = a
              /\ M' = m
              /\ requests' = r.requests
              /\ outcome' = r.outcome
              /\ message' = r.message
              /\ value' = r.value
    /\ pc' = "done"
    /\ UNCHANGED <<client, offset, maximum, results, calls, runtime>>

\* A caller calls a get* method: _getCollection up to its while loop.
CallGet ==
    /\ pc = "idle"
    /\ \E g \in DOMAIN Getters, params \in GetParams, m \in DataSizes :
          /\ op' = g
          /\ args' = [n \in {"params"} |-> params]
          /\ M' = m
          /\ IF params.t # "dict"
             THEN \* params.get on None
                  /\ pc' = "done" /\ outcome' = "AttributeError"
                  /\ UNCHANGED <<offset, maximum, value>>
             ELSE /\ offset' = StartOffset(params).v
                  /\ maximum' = StartMaximum(params)
                  /\ IF ReturnsEmpty(StartMaximum(params))
                     THEN /\ pc' = "done" /\ outcome' = "ok"
                          /\ value' = PyList(<<>>)
                     ELSE /\ pc' = "loop"
                          /\ UNCHANGED <<outcome, value>>
    /\ UNCHANGED <<client, results, calls, requests, message, runtime>>

\* One turn of _getCollection's while loop: func is called for the next page,
\* the page is appended, and the loop goes on or the method returns.
FetchPage ==
    /\ pc = "loop"
    /\ \E fail \in BOOLEAN, omit \in BOOLEAN :
          LET func == Facade[Getters[op].func]
              env  == [fail |-> fail, omitData |-> omit, body |-> PyDict(EmptyMap),
                       M |-> M, runtime |-> runtime]
              r    == CallMethod(client, func, Bind(func, <<ChunkRequest(offset)>>), env)
          IN  /\ calls' = Append(calls, ChunkRequest(offset))
              /\ requests' = requests \o r.requests
              /\ IF r.outcome # "ok"
                 THEN LET u == Unwind(r, results)
                      IN  /\ pc' = u.pc /\ outcome' = u.outcome
                          /\ message' = u.message /\ value' = u.value
                          /\ UNCHANGED <<results, offset>>
                 ELSE LET response == r.value.v
                          acc      == results \o response
                      IN  /\ results' = acc
                          /\ offset' = NextOffset(offset)
                          /\ message' = message
                          /\ IF IsLastPage(response) \/ MaximumReached(maximum, acc)
                             THEN /\ pc' = "done" /\ outcome' = "ok"
                                  /\ value' = PyList(Slice(acc, maximum))
                             ELSE /\ pc' = "loop"
                                  /\ UNCHANGED <<outcome, value>>
    /\ UNCHANGED <<client, op, args, M, maximum, runtime>>

\* The caller has its result or its exception; the client is ready again.
Return ==
    /\ pc = "done"
    /\ pc' = "idle" /\ op' = "" /\ args' = EmptyMap /\ M' = 0
    /\ offset' = 0 /\ maximum' = None /\ results' = <<>>
    /\ calls' = <<>> /\ requests' = <<>>
    /\ outcome' = "" /\ message' = "" /\ value' = None
    /\ UNCHANGED <<client, runtime>>

Next == CallFacade \/ CallGet \/ FetchPage \/ Return

Spec == Init /\ [][Next]_vars

----------------------------------------------------------------------------
\* Construction: Api(username, password, programToken, server)

\* no Api object exists yet
NewInit ==
    /\ client = None
    /\ runtime \in Runtimes
    /\ pc = "new" /\ op = "" /\ args = EmptyMap /\ M = 0
    /\ offset = 0 /\ maximum = None /\ results = <<>>
    /\ calls = <<>> /\ requests = <<>>
    /\ outcome = "" /\ message = "" /\ value = None

\* Api.__init__ runs: it raises and no object exists ("failed"), or the
\* object exists and is ready for calls.
Construct ==
    /\ pc = "new"
    /\ \E u \in Credentials, p \in Credentials, t \in ProgramTokens, s \in Servers :
          LET r == ApiInit(u, p, t, s)
          IN  IF r.outcome = "ok"
              THEN /\ client' = r.value
                   /\ pc' = "idle"
                   /\ UNCHANGED <<op, args, outcome, message>>
              ELSE /\ client' = None
                   /\ pc' = "failed"
                   /\ op' = "__init__"
                   /\ args' = [username |-> u, password |-> p, programToken |-> t,
                               server |-> s]
                   /\ outcome' = r.outcome
                   /\ message' = r.message
    /\ UNCHANGED <<M, offset, maximum, results, calls, requests, value, runtime>>

SpecNew == NewInit /\ [][Construct \/ Next]_vars

----------------------------------------------------------------------------
\* _addProgramToken applied repeatedly to one payload

\* The payloads handed to _addProgramToken: dicts over three keys, and two
\* values that are no dict.
TokenPayloads ==
    {None, PyStr("raw")} \cup
    {MkDict([profileType |-> a, clientUserId |-> b, programToken |-> c]) :
        a \in {Absent, PyStr(""), PyStr("INDIVIDUAL")},
        b \in {Absent, PyStr(""), PyStr("client-1")},
        c \in {Absent, None, PyStr(""), PyInt(0), PyStr("prg-1"), PyStr("prg-2")}}

\* args["data"] is the payload as first given, value the payload as it is
\* now, calls the values _addProgramToken returned so far.
TokenInit ==
    /\ \E u \in Credentials, p \in Credentials, t \in ProgramTokens, s \in Servers :
          /\ ApiInit(u, p, t, s).outcome = "ok"
          /\ client = ApiInit(u, p, t, s).value
    /\ runtime \in Runtimes
    /\ pc = "token" /\ op = "_addProgramToken"
    /\ \E d \in TokenPayloads : args = [data |-> d] /\ value = d
    /\ M = 0 /\ offset = 0 /\ maximum = None /\ results = <<>>
    /\ calls = <<>> /\ requests = <<>>
    /\ outcome = "" /\ message = ""

\* self._addProgramToken(data) on the payload as it is now
ApplyToken ==
    /\ pc = "token"
    /\ Len(calls) < MaxApplications
    /\ LET r == addProgramToken(client, value)
       IN  /\ outcome' = r.outcome
           /\ message' = r.message
           /\ IF r.outcome = "ok"
              THEN /\ value' = r.value
                   /\ calls' = Append(calls, r.value)
                   /\ pc' = "token"
              ELSE /\ pc' = "done"
                   /\ UNCHANGED <<value, calls>>
    /\ UNCHANGED <<client, op, args, M, offset, maximum, results, requests, runtime>>

SpecToken == TokenInit /\ [][ApplyToken]_vars

----------------------------------------------------------------------------
\* Several callers on one client: get* calls whose page fetches interleave.
\* client, M and runtime are shared; every other variable is a function of
\* the caller.  A caller is "idle", in "loop" (about to call func), in
\* "wait" (inside the transport's doGet, its request sent) or "done".

Threads == 1..NumThreads

\* A variant of Slot where offset, maximum and results are kept on the shared
\* instance instead of in the call.
Slot_Shared(th) == 1

\* offset, maximum, results and chunksize are local variables of
\* _getCollection: each call has its own.
Slot(th) == th

\* the transport answers every request, from a dataset of m items
FixedDataset(m) ==
    [fail |-> FALSE, omitData |-> FALSE, body |-> PyDict(EmptyMap), M |-> m,
     runtime |-> runtime]

\* func(req) of get* method g, req being {'offset': offset, 'limit': chunksize}
Fetch(self, g, m, req) ==
    LET func == Facade[Getters[g].func]
    IN  CallMethod(self, func, Bind(func, <<req>>), FixedDataset(m))

\* One turn of _getCollection's while loop on the locals off, max, res of get*
\* method g, func having been called with req: the locals after the turn, the
\* fetch made, and where the call is.
Turn(self, g, m, req, off, max, res) ==
    LET r == Fetch(self, g, m, req)
    IN  IF r.outcome # "ok"
        THEN LET u == Unwind(r, res)
             IN  [pc |-> u.pc, outcome |-> u.outcome, message |-> u.message,
                  value |-> u.value, offset |-> off, results |-> res,
                  call |-> req, requests |-> r.requests]
        ELSE LET response == r.value.v
                 acc      == res \o response
                 last     == IsLastPage(response) \/ MaximumReached(max, acc)
             IN  [pc |-> IF last THEN "done" ELSE "loop",
                  outcome |-> IF last THEN "ok" ELSE "",
                  message |-> "",
                  value |-> IF last THEN PyList(Slice(acc, max)) ELSE None,
                  offset |-> NextOffset(off), results |-> acc,
                  call |-> req, requests |-> r.requests]

\* the while loop of one call run to its end with no other call on the client
RECURSIVE Loop(_, _, _, _, _, _, _)
Loop(self, g, m, off, max, res, log) ==
    LET t == Turn(self, g, m, ChunkRequest(off), off, max, res)
        l == [calls |-> Append(log.calls, t.call), requests |-> log.requests \o t.requests]
    IN  IF t.pc = "done"
        THEN [calls |-> l.calls, requests |-> l.requests, outcome |-> t.outcome,
              message |-> t.message, value |-> t.value]
        ELSE Loop(self, g, m, t.offset, max, t.results, l)

\* get* method g called with params on a client nobody else uses
Alone(self, g, params, m) ==
    IF ReturnsEmpty(StartMaximum(params))
    THEN [calls |-> <<>>, requests |-> <<>>, outcome |-> "ok", message |-> "",
          value |-> PyList(<<>>)]
    ELSE Loop(self, g, m, StartOffset(params).v, StartMaximum(params), <<>>,
              [calls |-> <<>>, requests |-> <<>>])

\* the get* methods the callers use: one whose list function pages, one
\* whose list function raises after its transport call, one whose list
\* function raises before it
ConcGetters == {"getUsers", "getPayments", "getBankAccounts"}
ConcData == {MaxData}
ConcParams ==
    {MkDict([offset |-> PyInt(0), maximum |-> Absent]),
     MkDict([offset |-> PyInt(50), maximum |-> PyInt(120)])}
\* the calls the callers make: getUsers with either params, the two raising
\* methods with the first
ConcCalls ==
    {c \in [g : ConcGetters, params : ConcParams] :
        c.g = "getUsers" \/ "maximum" \notin DOMAIN c.params.v}

ConcInit ==
    /\ \E u \in Credentials, p \in Credentials, t \in ProgramTokens, s \in Servers :
          /\ ApiInit(u, p, t, s).outcome = "ok"
          /\ client = ApiInit(u, p, t, s).value
    /\ runtime \in Runtimes
    /\ M \in ConcData
    /\ pc = [th \in Threads |-> "idle"]
    /\ op = [th \in Threads |-> ""]
    /\ args = [th \in Threads |-> EmptyMap]
    /\ offset = [th \in Threads |-> 0]
    /\ maximum = [th \in Threads |-> None]
    /\ results = [th \in Threads |-> <<>>]
    /\ calls = [th \in Threads |-> <<>>]
    /\ requests = [th \in Threads |-> <<>>]
    /\ outcome = [th \in Threads |-> ""]
    /\ message = [th \in Threads |-> ""]
    /\ value = [th \in Threads |-> None]

\* caller th calls a get* method: _getCollection up to its while loop
ConcCallGet(th) ==
    /\ pc[th] = "idle"
    /\ \E c \in ConcCalls :
       LET g == c.g
           params == c.params
       IN
          /\ op' = [op EXCEPT ![th] = g]
          /\ args' = [args EXCEPT ![th] = [n \in {"params"} |-> params]]
          /\ offset' = [offset EXCEPT ![Slot(th)] = StartOffset(params).v]
          /\ maximum' = [maximum EXCEPT ![Slot(th)] = StartMaximum(params)]
          /\ results' = [results EXCEPT ![Slot(th)] = <<>>]
          /\ IF ReturnsEmpty(StartMaximum(params))
             THEN /\ pc' = [pc EXCEPT ![th] = "done"]
                  /\ outcome' = [outcome EXCEPT ![th] = "ok"]
                  /\ value' = [value EXCEPT ![th] = PyList(<<>>)]
             ELSE /\ pc' = [pc EXCEPT ![th] = "loop"]
                  /\ UNCHANGED <<outcome, value>>
    /\ UNCHANGED <<client, M, calls, requests, message, runtime>>

\* Caller th starts a turn of the while loop: func is called with the local
\* offset.  It raises before it reaches the transport and the call ends, or
\* its request is with the transport and the caller waits in doGet ("wait")
\* while the other callers run.
ConcIssue(th) ==
    /\ pc[th] = "loop"
    /\ LET req == ChunkRequest(offset[Slot(th)])
           r   == Fetch(client, op[th], M, req)
       IN  /\ calls' = [calls EXCEPT ![th] = Append(@, req)]
           /\ requests' = [requests EXCEPT ![th] = @ \o r.requests]
           /\ IF r.requests = <<>>
              THEN LET u == Unwind(r, results[Slot(th)])
                   IN  /\ pc' = [pc EXCEPT ![th] = u.pc]
                       /\ outcome' = [outcome EXCEPT ![th] = u.outcome]
                       /\ message' = [message EXCEPT ![th] = u.message]
                       /\ value' = [value EXCEPT ![th] = u.value]
              ELSE /\ pc' = [pc EXCEPT ![th] = "wait"]
                   /\ UNCHANGED <<outcome, message, value>>
    /\ UNCHANGED <<client, op, args, M, offset, maximum, results, runtime>>

\* The transport answers the request of caller th: func returns or raises,
\* the page is appended to the local results, the local offset advances, and
\* the loop goes on or the call ends.
ConcAnswer(th) ==
    /\ pc[th] = "wait"
    /\ LET t == Turn(client, op[th], M, calls[th][Len(calls[th])],
                     offset[Slot(th)], maximum[Slot(th)], results[Slot(th)])
       IN  /\ offset' = [offset EXCEPT ![Slot(th)] = t.offset]
           /\ results' = [results EXCEPT ![Slot(th)] = t.results]
           /\ pc' = [pc EXCEPT ![th] = t.pc]
           /\ outcome' = [outcome EXCEPT ![th] = t.outcome]
           /\ message' = [message EXCEPT ![th] = t.message]
           /\ value' = [value EXCEPT ![th] = t.value]
    /\ UNCHANGED <<client, op, args, M, maximum, calls, requests, runtime>>

\* caller th has its result or its exception; the locals of its call are gone
ConcReturn(th) ==
    /\ pc[th] = "done"
    /\ pc' = [pc EXCEPT ![th] = "idle"]
    /\ op' = [op EXCEPT ![th] = ""]
    /\ args' = [args EXCEPT ![th] = EmptyMap]
    /\ offset' = [offset EXCEPT ![Slot(th)] = 0]
    /\ maximum' = [maximum EXCEPT ![Slot(th)] = None]
    /\ results' = [results EXCEPT ![Slot(th)] = <<>>]
    /\ calls' = [calls EXCEPT ![th] = <<>>]
    /\ requests' = [requests EXCEPT ![th] = <<>>]
    /\ outcome' = [outcome EXCEPT ![th] = ""]
    /\ message' = [message EXCEPT ![th] = ""]
    /\ value' = [value EXCEPT ![th] = None]
    /\ UNCHANGED <<client, M, runtime>>

ConcNext ==
    \E th \in Threads :
        ConcCallGet(th) \/ ConcIssue(th) \/ ConcAnswer(th) \/ ConcReturn(th)

SpecConc == ConcInit /\ [][ConcNext]_vars

----------------------------------------------------------------------------
\* Properties of _getCollection and the get* methods

Min(a, b) == IF a < b THEN a ELSE b

\* a get* call whose params is a dict is in progress or has ended
GetCall == op \in DOMAIN Getters /\ args["params"].t = "dict"

\* the offset and maximum the caller asked for
CallerOffset ==
    IF Get(args["params"], "offset").t = "int" THEN Get(args["params"], "offset").v ELSE 0
CallerMaximum == Get(args["params"], "maximum")
HasMaximum == CallerMaximum.t = "int"

\* the number of items the server holds from the caller's offset on
Available == IF M > CallerOffset THEN M - CallerOffset ELSE 0

\* the get* call returned
GetReturned == GetCall /\ pc = "done" /\ outcome = "ok"

\* The list function behind the get* method is a paged list function: it
\* takes the paging dict as its params and can build its resources, so a fetch
\* at offset o with limit 100 returns the items at o .. o+99 that exist.
PagedListFunction ==
    /\ Facade[Getters[op].func].args[1] = "params"
    /\ Facade[Getters[op].func].resource \in Imported

\* the get* call ended, its list function is a paged one and no request failed
Served ==
    /\ GetCall /\ pc = "done" /\ PagedListFunction
    /\ \A i \in 1..Len(requests) : requests[i].status = "ok"

\* the resource class of the family a get* method reads
FamilyResource == Facade[Getters[op].func].resource

\* the resources of the items at positions from .. from+n-1
ItemsFrom(from, n) == [i \in 1..n |-> Resource(FamilyResource, Item(from + i - 1))]

\* C1 as stated: with maximum >= 1, any offset >= 0 and M items behind a
\* well-behaved list function, _getCollection returns min(maximum, M) items.
C1_CountOfDataset ==
    (Served /\ HasMaximum /\ CallerMaximum.v >= 1)
        => outcome = "ok" /\ Len(value.v) = Min(CallerMaximum.v, M)

\* C1 amended: with maximum >= 1 and offset >= 0, _getCollection returns
\* min(maximum, max(M - offset, 0)) items: the count is capped by the items
\* that exist from the offset on, not by the size of the whole dataset.
C1_CountFromOffset ==
    (Served /\ HasMaximum /\ CallerMaximum.v >= 1)
        => outcome = "ok" /\ Len(value.v) = Min(CallerMaximum.v, Available)

C1_Witness ==
    /\ GetReturned /\ op = "getUsers" /\ M = 250
    /\ CallerOffset = 150 /\ CallerMaximum = PyInt(120)
    /\ Len(value.v) = 100

\* the offsets of the page fetches made so far, in order
FetchOffsets == [i \in 1..Len(calls) |-> calls[i].v["offset"].v]

\* the call getUsers({"offset": 0, "maximum": 120}) over 250 users ended and
\* no request failed
C2_Scenario ==
    /\ Served /\ op = "getUsers" /\ M = 250
    /\ args["params"] = PyDict([offset |-> PyInt(0), maximum |-> PyInt(120)])

\* C2 as stated: the scenario returns 120 User resources after three page
\* fetches, at offsets 0, 100 and 200.
C2_ThreeFetches ==
    C2_Scenario =>
        /\ outcome = "ok"
        /\ value.v = ItemsFrom(0, 120)
        /\ FetchOffsets = <<0, 100, 200>>
        /\ Len(requests) = 3

\* C2 amended: the scenario returns exactly the first 120 User resources after
\* exactly two page fetches, at offsets 0 and 100: the second page already
\* brings the accumulator to 200 >= 120, so no third fetch is made.
C2_TwoFetches ==
    C2_Scenario =>
        /\ outcome = "ok"
        /\ value.v = ItemsFrom(0, 120)
        /\ \A i \in 1..120 : value.v[i].t = "User"
        /\ FetchOffsets = <<0, 100>>
        /\ Len(requests) = 2

C2_Witness == C2_Scenario /\ Len(results) = 200 /\ Len(value.v) = 120

\* C3: a get* call whose maximum is present and below 1 returns an empty
\* list, whatever the offset, and neither the list function nor the transport
\* is ever called.
C3_NoFetchBelowOne ==
    (GetCall /\ HasMaximum /\ CallerMaximum.v < 1)
        => /\ pc = "done" /\ outcome = "ok"
           /\ value = PyList(<<>>)
           /\ calls = <<>>
           /\ requests = <<>>

C3_Witness ==
    /\ GetCall /\ pc = "done" /\ M = 250
    /\ CallerMaximum = PyInt(0) /\ CallerOffset = 100
    /\ value = PyList(<<>>) /\ requests = <<>>

\* C4: with no maximum, every page before the last fetched one is full, the
\* call returns right after the first page shorter than 100, that is after
\* floor(available/100) + 1 fetches (so after one empty page when the
\* available data is a multiple of 100), and it returns every item fetched.
C4_UntilShortPage ==
    (GetCall /\ ~HasMaximum) =>
        /\ pc = "loop" => Len(results) = 100 * Len(calls)
        /\ Served =>
              /\ outcome = "ok"
              /\ Len(calls) = (Available \div 100) + 1
              /\ value.v = results
              /\ value.v = ItemsFrom(CallerOffset, Available)

C4_Witness ==
    /\ GetReturned /\ ~HasMaximum /\ M = 200 /\ CallerOffset = 0
    /\ FetchOffsets = <<0, 100, 200>>
    /\ Len(value.v) = 200

\* C5: with a maximum above the size of the dataset the call returns every
\* item available from the offset, without error; when fewer than 100 are
\* available it does so after exactly one fetch.
C5_MaximumAboveData ==
    (Served /\ HasMaximum /\ CallerMaximum.v > M)
        => /\ outcome = "ok"
           /\ value.v = ItemsFrom(CallerOffset, Available)
           /\ Available < 100 => Len(calls) = 1 /\ Len(requests) = 1

C5_Witness ==
    /\ GetReturned /\ op = "getUsers" /\ M = 50
    /\ CallerMaximum = PyInt(1000) /\ Len(value.v) = 50
    /\ Len(requests) = 1

\* no request of the call failed
NoFailure == \A i \in 1..Len(requests) : requests[i].status = "ok"

\* the last component of the listing path of the family a get* method reads
FamilyListing ==
    LET p == Facade[Getters[op].func].path IN p[Len(p)].s

\* C6 as stated: each get* method, called with maximum >= 1 against a
\* transport that succeeds, makes every page fetch one call of its list*
\* method that reaches the transport as a GET on the family's listing path
\* with offset and limit = 100 as query parameters, and returns the
\* accumulated resources of the family.
C6_EveryGetterPages ==
    (GetCall /\ pc = "done" /\ HasMaximum /\ CallerMaximum.v >= 1 /\ NoFailure)
        => /\ outcome = "ok"
           /\ Len(calls) >= 1
           /\ Len(requests) = Len(calls)
           /\ \A i \in 1..Len(requests) :
                 /\ requests[i].method = "doGet"
                 /\ requests[i].path[Len(requests[i].path)] = FamilyListing
                 /\ requests[i].payload =
                       PyDict([offset |-> PyInt(CallerOffset + 100 * (i - 1)),
                               limit |-> PyInt(100)])
           /\ \A i \in 1..Len(value.v) : value.v[i].t = FamilyResource

\* the caller's keys other than the paging keys offset and maximum
CallerFilters == DOMAIN args["params"].v \ {"offset", "maximum"}

\* a list* (or other) method that sends its params hands them over unchanged
ParamsHandedOver ==
    (op \in DOMAIN Facade /\ pc = "done" /\ Facade[op].payload = "params"
       /\ requests # <<>>)
        => /\ Len(requests) = 1
           /\ requests[1].method = "doGet"
           /\ requests[1].payload = args["params"]

\* C7 as stated: a list* method hands its params to doGet unchanged, and a
\* get* method forwards every caller key other than offset/maximum in each
\* page request.
C7_FiltersForwarded ==
    /\ ParamsHandedOver
    /\ GetCall =>
          \A i \in 1..Len(requests) : \A k \in CallerFilters :
             /\ k \in DOMAIN requests[i].payload.v
             /\ requests[i].payload.v[k] = args["params"].v[k]

\* C7 amended: a list* method hands its params to doGet unchanged; a get*
\* method sends exactly offset and limit in each page request, so no other
\* caller key (a filter) reaches the transport.
C7_OnlyPagingKeysSent ==
    /\ ParamsHandedOver
    /\ GetCall =>
          \A i \in 1..Len(requests) :
             DOMAIN requests[i].payload.v = {"offset", "limit"}

C7_Witness ==
    /\ GetReturned /\ op = "getUsers"
    /\ "createdAfter" \in CallerFilters
    /\ Len(requests) = 2
    /\ "createdAfter" \notin DOMAIN requests[2].payload.v

\* C8: once the fetch of page N has failed, the get* call has ended with the
\* transport's error and without a value; the failed request is the last one
\* made (no retry, no further fetch), and every earlier one had succeeded.
C8_FailurePropagates ==
    (GetCall /\ \E i \in 1..Len(requests) : requests[i].status = "failed")
        => /\ pc = "done"
           /\ outcome = "TransportError"
           /\ value = None
           /\ requests[Len(requests)].status = "failed"
           /\ \A i \in 1..(Len(requests) - 1) : requests[i].status = "ok"
           /\ Len(calls) = Len(requests)

C8_Witness ==
    /\ GetCall /\ pc = "done" /\ outcome = "TransportError"
    /\ Len(requests) = 3 /\ Len(results) = 200
    /\ value = None

\* C9: in every get* call the k-th fetch asks for offset start + 100*(k-1) and
\* limit 100, whatever the maximum; a fetch is made only when all earlier ones
\* have returned, the loop then standing at offset start + 100*k.
C9_FixedPages ==
    GetCall =>
        /\ \A k \in 1..Len(calls) :
              calls[k] = PyDict([offset |-> PyInt(CallerOffset + 100 * (k - 1)),
                                 limit |-> PyInt(100)])
        /\ pc = "loop" =>
              /\ offset = CallerOffset + 100 * Len(calls)
              /\ Len(requests) = Len(calls)
              /\ NoFailure

C9_Witness ==
    /\ GetCall /\ pc = "done" /\ CallerOffset = 50
    /\ CallerMaximum = PyInt(201)
    /\ FetchOffsets = <<50, 150, 250>>

\* The parameters a method's docstring marks REQUIRED: its identifiers and its
\* payload, that is every parameter but params, and but the data of
\* createTransferMethod.
RequiredArgs(name) ==
    {n \in DOMAIN args : n # "params" /\ ~(name = "createTransferMethod" /\ n = "data")}

\* the positions, in the method's parameter list, of the required arguments
\* given as None or empty
MissingArgs ==
    {i \in 1..Len(Facade[op].args) :
        /\ Facade[op].args[i] \in RequiredArgs(op)
        /\ args[Facade[op].args[i]] \in {None, PyStr(""), PyDict(EmptyMap)}}

\* C10: a facade method called with a required identifier or payload None or
\* empty raises HyperwalletException naming the first such argument in
\* parameter order, and the transport is not called.
C10_MissingArgumentRaises ==
    (op \in DOMAIN Facade /\ pc = "done" /\ MissingArgs # {})
        => /\ outcome = "HyperwalletException"
           /\ \E i \in MissingArgs :
                 /\ \A j \in MissingArgs : i <= j
                 /\ message = Facade[op].args[i] \o " is required"
           /\ requests = <<>>

C10_Witness ==
    /\ pc = "done" /\ op = "updateBankAccount"
    /\ args["userToken"] = PyStr("tok-userToken")
    /\ args["bankAccountToken"] = PyStr("")
    /\ args["data"] = None
    /\ message = "bankAccountToken is required"
    /\ requests = <<>>

----------------------------------------------------------------------------
\* Properties of the facade methods

\* the query-parameter keys the two transfer-method-configuration methods
\* require
RequiredKeys ==
    {Facade[op].checks[i].name : i \in {j \in 1..Len(Facade[op].checks) :
                                           Facade[op].checks[j].kind = "key"}}

\* C11 as stated: listTransferMethodConfigurations and
\* retrieveTransferMethodConfiguration raise HyperwalletException, before any
\* transport call, whenever a required key is missing from params or present
\* with an empty value.
C11_RequiredKeysMissingOrEmpty ==
    (/\ op \in {"listTransferMethodConfigurations",
                "retrieveTransferMethodConfiguration"}
     /\ pc = "done"
     /\ args["params"].t = "dict"
     /\ \E k \in RequiredKeys :
           \/ k \notin DOMAIN args["params"].v
           \/ ~Truthy(args["params"].v[k]))
        => /\ outcome = "HyperwalletException"
           /\ requests = <<>>

\* C12: createUser and createPayment, given a non-empty dict, send one POST
\* whose payload has the caller's keys with the caller's values (a
\* programToken of the caller's included, whatever its value) and, when the
\* caller gave no programToken key, the client's programToken in addition.
C12_ProgramTokenInjected ==
    (/\ op \in {"createUser", "createPayment"} /\ pc = "done"
     /\ args["data"].t = "dict" /\ DOMAIN args["data"].v # {})
        => /\ Len(requests) = 1
           /\ requests[1].method = "doPost"
           /\ LET d    == args["data"].v
                  sent == requests[1].payload.v
              IN  /\ DOMAIN sent = DOMAIN d \cup {"programToken"}
                  /\ \A k \in DOMAIN d : sent[k] = d[k]
                  /\ "programToken" \notin DOMAIN d
                        => sent["programToken"] = client.programToken

C12_Witness ==
    /\ op = "createPayment" /\ pc = "done"
    /\ args["data"] = PyDict([programToken |-> PyStr("")])
    /\ Len(requests) = 1
    /\ requests[1].payload = PyDict([programToken |-> PyStr("")])

\* the variants of Resource
Variants == {"User", "BankAccount", "PrepaidCard", "PaperCheck", "Payment", "Webhook"}

\* C14 as stated: every method that returns a resource or a listing of
\* resources, called with valid arguments against a transport that succeeds,
\* returns a resource (or a sequence of resources) of its variant wrapping the
\* transport's response, and raises nothing after the transport call.
C14_ResponseWrapped ==
    (/\ op \in DOMAIN Facade /\ pc = "done"
     /\ Facade[op].wrap \in {"one", "list"}
     /\ Len(requests) = 1 /\ requests[1].status = "ok")
        => /\ outcome = "ok"
           /\ Facade[op].resource \in Variants
           /\ Facade[op].wrap = "one" =>
                 value.t = Facade[op].resource /\ value.v \in Bodies
           /\ Facade[op].wrap = "list" =>
                 /\ value.t = "list"
                 /\ \A i \in 1..Len(value.v) :
                       /\ value.v[i].t = Facade[op].resource
                       /\ value.v[i].v.t = "dict"

\* the caller of a get* method named no offset: no params at all, no offset
\* key, or offset None
NoOffsetGiven ==
    /\ op \in DOMAIN Getters
    /\ \/ args["params"] = None
       \/ /\ args["params"].t = "dict"
          /\ Get(args["params"], "offset") = None

\* C15 as stated: when the caller names no offset, _getCollection makes its
\* first page fetch at offset 0 and raises no error on that account.
C15_DefaultOffset ==
    NoOffsetGiven =>
        /\ outcome # "AttributeError"
        /\ Len(calls) >= 1 => calls[1].v["offset"] = PyInt(0)

\* C18: against a paged list function over a fixed dataset, a get* call with
\* offset o and maximum m >= 1 returns exactly the items at positions
\* o .. min(o + m, |D|) - 1 in dataset order, and with no maximum the items
\* from o to the end.
C18_ExactItems ==
    (Served /\ (HasMaximum => CallerMaximum.v >= 1))
        => /\ outcome = "ok"
           /\ LET last == IF HasMaximum
                          THEN Min(CallerOffset + CallerMaximum.v, M)
                          ELSE M
                  n    == IF last > CallerOffset THEN last - CallerOffset ELSE 0
              IN  /\ Len(value.v) = n
                  /\ \A i \in 1..n :
                        value.v[i] = Resource(FamilyResource, Item(CallerOffset + i - 1))

C18_Witness ==
    /\ Served /\ op = "getWebhooks" /\ M = 250
    /\ CallerOffset = 50 /\ CallerMaximum = PyInt(120)
    /\ Len(value.v) = 120
    /\ value.v[1] = Resource("Webhook", Item(50))
    /\ value.v[120] = Resource("Webhook", Item(169))

\* C13: applying _addProgramToken again returns what the first application
\* returned, and applied to a payload that has a programToken key it returns
\* the payload as given, whatever the key's value.
C13_TokenIdempotent ==
    (op = "_addProgramToken" /\ args["data"].t = "dict")
        => /\ \A k \in 2..Len(calls) : calls[k] = calls[1]
           /\ Len(calls) >= 1 => value = calls[1]
           /\ ("programToken" \in DOMAIN args["data"].v /\ Len(calls) >= 1)
                 => calls[1] = args["data"]
           /\ outcome \in {"", "ok"}

C13_Witness ==
    /\ op = "_addProgramToken" /\ Len(calls) = 2
    /\ args["data"] = PyDict([profileType |-> PyStr("INDIVIDUAL"),
                             programToken |-> PyStr("")])
    /\ calls[2] = args["data"]

\* the configuration of the client is complete
Configured ==
    /\ Truthy(client.username) /\ Truthy(client.password)
    /\ Truthy(client.programToken)
    /\ client.apiClient = [username |-> client.username,
                           password |-> client.password,
                           server |-> client.server]

\* the first of username, password, programToken that is None or empty
FirstMissingCredential ==
    IF ~Truthy(args["username"]) THEN "username"
    ELSE IF ~Truthy(args["password"]) THEN "password"
    ELSE IF ~Truthy(args["programToken"]) THEN "programToken"
    ELSE ""

\* what holds of construction and of a constructed client in every state
C16_State ==
    /\ pc = "new" => client = None
    /\ pc = "failed" =>
          /\ client = None
          /\ FirstMissingCredential # ""
          /\ outcome = "HyperwalletException"
          /\ message = FirstMissingCredential \o " is required"
          /\ requests = <<>>
    /\ pc \notin {"new", "failed"} => client # None /\ Configured

\* C16: construction with username, password or programToken None or empty
\* raises the configuration error, leaves no client (hence no transport
\* client) and makes no request; every client that exists has the three
\* non-empty; no step changes a client that exists.
C16_Configuration ==
    /\ []C16_State
    /\ [][client # None => client' = client]_vars

C16_Witness ==
    /\ pc = "failed" /\ client = None
    /\ args["username"] = PyStr("secret") /\ args["password"] = PyStr("secret")
    /\ args["programToken"] = PyStr("")
    /\ message = "programToken is required"

\* the number of fetches after which a get* call over Available items ends
ExpectedFetches ==
    IF HasMaximum
    THEN Min((CallerMaximum.v + 99) \div 100, (Available \div 100) + 1)
    ELSE (Available \div 100) + 1

\* what holds of the fetches of a get* call in every state
C19_Fetches ==
    (GetCall /\ PagedListFunction /\ NoFailure /\ (HasMaximum => CallerMaximum.v >= 1))
        => /\ pc = "loop" =>
                 /\ Len(results) = 100 * Len(calls)
                 /\ HasMaximum => Len(results) < CallerMaximum.v
                 /\ Len(calls) < ExpectedFetches
           /\ pc = "done" => Len(calls) = ExpectedFetches

\* C19: against a paged list function a get* call always ends: while it
\* loops it has made fewer fetches than the bound, and every turn of the loop
\* is one more fetch; it ends after
\* floor(A/100) + 1 fetches without maximum and after
\* min(ceil(maximum/100), floor(A/100) + 1) fetches with maximum >= 1; a fetch
\* is made only when every page so far was full and the accumulator is below
\* the maximum.
C19_Terminates ==
    /\ []C19_Fetches
    /\ [][pc = "loop" => (pc' \in {"loop", "done"} /\ Len(calls') = Len(calls) + 1)]_vars

C19_Witness ==
    /\ Served /\ M = 250 /\ CallerOffset = 0
    /\ CallerMaximum = PyInt(100)
    /\ Len(calls) = 1 /\ Len(value.v) = 100

\* s is an initial part of t
IsPrefix(s, t) == Len(s) <= Len(t) /\ SubSeq(t, 1, Len(s)) = s

\* the call of caller th, had it run alone on the client
Reference(th) == Alone(client, op[th], args[th]["params"], M)

\* C17: whatever the interleaving of the page fetches of the callers, each
\* call makes the fetches it makes alone, in the same order, and ends with
\* the result or the exception it ends with alone.
C17_SameAsAlone ==
    \A th \in Threads :
        pc[th] \in {"loop", "wait", "done"} =>
            LET alone == Reference(th)
            IN  /\ pc[th] = "loop" =>
                      /\ IsPrefix(calls[th], alone.calls)
                      /\ IsPrefix(requests[th], alone.requests)
                      /\ Len(calls[th]) < Len(alone.calls)
                /\ pc[th] = "wait" =>
                      /\ IsPrefix(calls[th], alone.calls)
                      /\ IsPrefix(requests[th], alone.requests)
                /\ pc[th] = "done" =>
                      /\ calls[th] = alone.calls
                      /\ requests[th] = alone.requests
                      /\ outcome[th] = alone.outcome
                      /\ message[th] = alone.message
                      /\ value[th] = alone.value

\* two calls with different offsets and maximums, each waiting for the answer
\* to a request while the other's request is outstanding too
C17_Witness ==
    /\ M = MaxData
    /\ op[1] = "getUsers" /\ op[2] = "getUsers"
    /\ args[1]["params"] = PyDict([offset |-> PyInt(0)])
    /\ args[2]["params"] = PyDict([offset |-> PyInt(50), maximum |-> PyInt(120)])
    /\ pc[1] = "wait" /\ Len(requests[1]) = 2 /\ Len(results[1]) = 100
    /\ pc[2] = "wait" /\ Len(requests[2]) = 1 /\ results[2] = <<>>

====
